---- MODULE Spec2Model ----
(***************************************************************************)
(* The two deployment notebooks (Llama 3 70B: src/unnamed/part_000,        *)
(* Mixtral 8x7B: src/mixtral-8x7b/deploy-mixtral-8x7b-inferentia2.ipynb)   *)
(* as a state machine.  A notebook is a list of code cells run top to      *)
(* bottom by the kernel; a cell that raises stops the run.  The kernel     *)
(* namespace (config, llm_model, llm, chat, data) survives the run, and a  *)
(* cell can be executed again by hand afterwards.  The hosting platform,   *)
(* the benchmark process and the results directory are the environment:    *)
(* each outcome they can produce is a nondeterministic choice.             *)
(***************************************************************************)
EXTENDS Integers, Sequences, FiniteSets, TLC

(***************************************************************************)
(* Bounds of the model.                                                    *)
(***************************************************************************)
\* how many cells are executed again by hand after the run has ended
MaxReruns == 2
\* how many endpoints are ever created (one endpoint name per deploy call)
MaxDeploys == 2
\* seconds between two looks at the endpoint status while deploy waits
PollInterval == 800

(***************************************************************************)
(* Python values.  A str is a sequence of pieces; a numeric str is written *)
(* digit by digit so that int(...) is a computation.  None is its own type.*)
(***************************************************************************)
Str(s) == [type |-> "str", val |-> s]
NoneValue == [type |-> "NoneType", val |-> <<>>]
Unbound == [type |-> "unbound", val |-> <<>>]

DigitVal(ch) ==
  CASE ch = "0" -> 0 [] ch = "1" -> 1 [] ch = "2" -> 2 [] ch = "3" -> 3
    [] ch = "4" -> 4 [] ch = "5" -> 5 [] ch = "6" -> 6 [] ch = "7" -> 7
    [] ch = "8" -> 8 [] ch = "9" -> 9

RECURSIVE ParseDigits(_)
ParseDigits(s) ==
  IF s = <<>> THEN 0
  ELSE 10 * ParseDigits(SubSeq(s, 1, Len(s) - 1)) + DigitVal(s[Len(s)])

\* int("4096") of an environment value
ParseInt(v) == ParseDigits(v.val)

Notebooks == {"llama", "mixtral"}

(***************************************************************************)
(* Compile step of the Mixtral notebook (plain Python integers).           *)
(***************************************************************************)
SEQUENCE_LENGTH == 4096
BATCH_SIZE == 4
NUM_CORES == 24

(***************************************************************************)
(* sagemaker config                                                        *)
(***************************************************************************)
health_check_timeout == 2400
volume_size == 512
instance_type == Str(<<"ml.inf2.48xlarge">>)

(***************************************************************************)
(* HfFolder.get_token(): the stored token, or None when nobody logged in.  *)
(***************************************************************************)
Tokens == {NoneValue, Str(<<"hf_token">>)}

(***************************************************************************)
(* Define Model and Endpoint configuration parameter: the config dict of   *)
(* each notebook, as written in the cell.                                  *)
(***************************************************************************)
\* variant: the serving batch size raised without recompiling
LlamaConfigBatch8(tok) ==
  [ HF_MODEL_ID          |-> Str(<<"meta-llama/Meta-Llama-3-70B-Instruct">>),
    HF_NUM_CORES         |-> Str(<<"2", "4">>),
    HF_BATCH_SIZE        |-> Str(<<"4">>),
    HF_SEQUENCE_LENGTH   |-> Str(<<"4", "0", "9", "6">>),
    HF_AUTO_CAST_TYPE    |-> Str(<<"fp16">>),
    MAX_BATCH_SIZE       |-> Str(<<"8">>),
    MAX_INPUT_LENGTH     |-> Str(<<"4", "0", "0", "0">>),
    MAX_TOTAL_TOKENS     |-> Str(<<"4", "0", "9", "6">>),
    MESSAGES_API_ENABLED |-> Str(<<"true">>),
    HF_TOKEN             |-> tok ]

LlamaConfig(tok) ==
  [ HF_MODEL_ID          |-> Str(<<"meta-llama/Meta-Llama-3-70B-Instruct">>),
    HF_NUM_CORES         |-> Str(<<"2", "4">>),
    HF_BATCH_SIZE        |-> Str(<<"4">>),
    HF_SEQUENCE_LENGTH   |-> Str(<<"4", "0", "9", "6">>),
    HF_AUTO_CAST_TYPE    |-> Str(<<"fp16">>),
    MAX_BATCH_SIZE       |-> Str(<<"4">>),
    MAX_INPUT_LENGTH     |-> Str(<<"4", "0", "0", "0">>),
    MAX_TOTAL_TOKENS     |-> Str(<<"4", "0", "9", "6">>),
    MESSAGES_API_ENABLED |-> Str(<<"true">>),
    HF_TOKEN             |-> tok ]

\* variant: MAX_INPUT_LENGTH set to the compiled sequence length
MixtralConfigInputAtLimit ==
  [ HF_MODEL_ID          |-> Str(<<"aws-neuron/hermes-mixtral-instruct-seqlen-4096-bs-4-optimum-0-0-23">>),
    HF_NUM_CORES         |-> Str(<<"2", "4">>),
    HF_AUTO_CAST_TYPE    |-> Str(<<"fp16">>),
    MAX_BATCH_SIZE       |-> Str(<<"4">>),
    MAX_INPUT_LENGTH     |-> Str(<<"4", "0", "9", "6">>),
    MAX_TOTAL_TOKENS     |-> Str(<<"4", "0", "9", "6">>),
    MESSAGES_API_ENABLED |-> Str(<<"true">>) ]

MixtralConfig ==
  [ HF_MODEL_ID          |-> Str(<<"aws-neuron/hermes-mixtral-instruct-seqlen-4096-bs-4-optimum-0-0-23">>),
    HF_NUM_CORES         |-> Str(<<"2", "4">>),
    HF_AUTO_CAST_TYPE    |-> Str(<<"fp16">>),
    MAX_BATCH_SIZE       |-> Str(<<"4">>),
    MAX_INPUT_LENGTH     |-> Str(<<"4", "0", "0", "0">>),
    MAX_TOTAL_TOKENS     |-> Str(<<"4", "0", "9", "6">>),
    MESSAGES_API_ENABLED |-> Str(<<"true">>) ]

ConfigOf(n, tok) == IF n = "llama" THEN LlamaConfig(tok) ELSE MixtralConfig

\* the sequence length the model of notebook n was compiled with
CompiledSequenceLength(n, env) ==
  IF n = "llama" THEN ParseInt(env["HF_SEQUENCE_LENGTH"]) ELSE SEQUENCE_LENGTH

\* the batch size the model of notebook n was compiled with
CompiledBatchSize(n, env) ==
  IF n = "llama" THEN ParseInt(env["HF_BATCH_SIZE"]) ELSE BATCH_SIZE

(***************************************************************************)
(* State.                                                                  *)
(***************************************************************************)
VARIABLES
  nb,            \* which notebook runs
  token,         \* what HfFolder.get_token() returns on this machine
  pc,            \* the cell the run is at, or "done" / "aborted"
  reruns,        \* cells executed again by hand after the run ended
  err,           \* exception raised by the last executed cell, or "none"
  config,        \* kernel name config: the env dict, or Unbound
  llm_model,     \* kernel name llm_model: the env held by HuggingFaceModel
  llm,           \* kernel name llm: endpoint name of the predictor, 0 = unbound
  chat,          \* kernel name chat: the decoded response, or Unbound
  data,          \* kernel name data: the parsed summary, or Unbound
  printed,       \* lines printed by the last execution of the reader cell
  opened,        \* the file the reader cell opened last, or NoFile
  deploying,     \* endpoint name deploy is waiting for, 0 = not waiting
  elapsed,       \* seconds deploy has been waiting
  submitted,     \* env of every deploy request sent to the platform
  nextName,      \* next fresh endpoint name
  platModels,    \* platform: model artifacts that exist
  platConfigs,   \* platform: endpoint configurations that exist
  platEndpoints, \* platform: endpoints that exist
  inService,     \* platform: endpoints that are healthy
  resultsDir,    \* files of the directory "results": name -> content
  last,          \* the last remote call: operation, endpoint name, outcome
  outcomes,      \* how each deploy call ended
  predictOn,     \* endpoint names an inference call was issued on
  deleted,       \* endpoint names on which the clean-up cell completed
  appLaunched,   \* the demo chat app is running
  issued,        \* remote calls made by the cell executed last, in order
  request,       \* body of the last inference request, as sent
  shown,         \* text printed by the last execution of the predict cell
  codecIn,       \* codec on its own: the messages given to it
  codecOut,      \* codec on its own: the messages read back from the body
  codecStage     \* codec on its own: "idle", "encoded" or "decoded"

vars == << nb, token, pc, reruns, err, config, llm_model, llm, chat, data,
           printed, opened, deploying, elapsed, submitted, nextName, platModels,
           platConfigs, platEndpoints, inService, resultsDir, last, outcomes,
           predictOn, deleted, appLaunched, issued, request, shown, codecIn,
           codecOut, codecStage >>

codecVars == << codecIn, codecOut, codecStage >>
kernelVars == << config, llm_model, llm, chat, data, printed, opened >>
platformVars == << platModels, platConfigs, platEndpoints, inService >>

\* the code cells of a notebook, in the order the run executes them
Cells == << "config", "deploy", "predict", "demo", "benchmark", "reader", "cleanup" >>
CellSet == { Cells[i] : i \in 1..Len(Cells) }
Ended == {"done", "aborted"}

IndexOf(c) == CHOOSE i \in 1..Len(Cells) : Cells[i] = c
Succ(c) == IF IndexOf(c) = Len(Cells) THEN "done" ELSE Cells[IndexOf(c) + 1]

NoCall == [op |-> "none", name |-> 0, result |-> "none"]

\* one remote call of a cell and how it ended
Call(op, result) == [op |-> op, result |-> result]

(***************************************************************************)
(* JSON values of a summary file.  A number is a decimal m * 10^-e, so     *)
(* that "* 1000", int(...) and the format ":.2f" are computed, not assumed.*)
(***************************************************************************)
Num(m, e) == [type |-> "num", m |-> m, e |-> e]
JNull == [type |-> "null", m |-> 0, e |-> 0]

RECURSIVE Pow10(_)
Pow10(k) == IF k = 0 THEN 1 ELSE 10 * Pow10(k - 1)

\* m / d rounded to the nearest integer (m >= 0, d > 0).  An exact tie goes to
\* the even neighbour here; in Python it follows the binary value of the
\* float, so the summaries of the model hold no value that is a tie.
RoundDiv(m, d) ==
  LET q == m \div d
      r == m % d
  IN  IF 2 * r > d THEN q + 1
      ELSE IF 2 * r = d THEN q + (q % 2)
      ELSE q

\* variant: the value is printed in seconds, without the factor
TimesOne(x) == x

\* x * 1000 of a Python number
Times1000(x) ==
  IF x.e >= 3 THEN Num(x.m, x.e - 3) ELSE Num(x.m * Pow10(3 - x.e), 0)

\* f"{x:.2f}": the number rounded to two decimals, as hundredths
Format2f(x) ==
  IF x.e <= 2 THEN Num(x.m * Pow10(2 - x.e), 2)
  ELSE Num(RoundDiv(x.m, Pow10(x.e - 2)), 2)

\* int(x): truncation
IntOf(x) == Num(x.m \div Pow10(x.e), 0)

\* two decimals denote the same number
SameNumber(a, b) == a.m * Pow10(b.e) = b.m * Pow10(a.e)

(***************************************************************************)
(* The print statements of the reader cell of each notebook: label, the    *)
(* key read from data, and what is done to the value before printing.      *)
(***************************************************************************)
Line(label, key, op) == [label |-> label, key |-> key, op |-> op]

\* variant: the throughput line is left out
LlamaLinesNoThroughput ==
  << Line("Concurrent requests", "", "const"),
     Line("Avg. Input token length", "mean_input_tokens", "raw"),
     Line("Avg. Output token length", "mean_output_tokens", "raw"),
     Line("Avg. First-Time-To-Token", "results_ttft_s_mean", "ms2f"),
     Line("Avg. Latency", "results_inter_token_latency_s_mean", "ms2f") >>

LlamaLines ==
  << Line("Concurrent requests", "", "const"),
     Line("Avg. Input token length", "mean_input_tokens", "raw"),
     Line("Avg. Output token length", "mean_output_tokens", "raw"),
     Line("Avg. First-Time-To-Token", "results_ttft_s_mean", "ms2f"),
     Line("Avg. Thorughput", "results_mean_output_throughput_token_per_s", "2f"),
     Line("Avg. Latency", "results_inter_token_latency_s_mean", "ms2f") >>

MixtralLines ==
  << Line("Concurrent requests", "", "const"),
     Line("Avg. Input token length", "results_number_input_tokens_mean", "int"),
     Line("Avg. Output token length", "results_number_output_tokens_mean", "int"),
     Line("Avg. Time-to-first-Token", "results_ttft_s_mean", "ms2f"),
     Line("Avg. Inter-Token-Latency", "results_inter_token_latency_s_mean", "ms2f"),
     Line("Avg. Thorughput", "results_mean_output_throughput_token_per_s", "2f"),
     Line("Request per minute (RPM)", "results_num_completed_requests_per_min", "2f") >>

LinesOf(n) == IF n = "llama" THEN LlamaLines ELSE MixtralLines

\* the exception one print statement raises on the parsed object, or "none"
LineError(ln, obj) ==
  IF ln.op = "const" THEN "none"
  ELSE IF ln.key \notin DOMAIN obj THEN "KeyError"
  ELSE IF ln.op # "raw" /\ obj[ln.key].type # "num" THEN "TypeError"
  ELSE "none"

\* the text one print statement writes
LineText(ln, obj) ==
  [ label |-> ln.label,
    value |-> CASE ln.op = "const" -> Num(5, 0)
                [] ln.op = "raw"   -> obj[ln.key]
                [] ln.op = "int"   -> IntOf(obj[ln.key])
                [] ln.op = "ms2f"  -> Format2f(Times1000(obj[ln.key]))
                [] ln.op = "2f"    -> Format2f(obj[ln.key]) ]

\* variant: a print statement that raises is skipped and the cell goes on
RECURSIVE RunPrintsSkipping(_, _, _)
RunPrintsSkipping(lines, obj, out) ==
  IF lines = <<>> THEN [out |-> out, err |-> "none"]
  ELSE IF LineError(Head(lines), obj) # "none"
       THEN RunPrintsSkipping(Tail(lines), obj, out)
       ELSE RunPrintsSkipping(Tail(lines), obj, Append(out, LineText(Head(lines), obj)))

\* the print statements run in order; the first one that raises ends the cell
RECURSIVE RunPrints(_, _, _)
RunPrints(lines, obj, out) ==
  IF lines = <<>> THEN [out |-> out, err |-> "none"]
  ELSE LET e == LineError(Head(lines), obj)
       IN  IF e # "none" THEN [out |-> out, err |-> e]
           ELSE RunPrints(Tail(lines), obj, Append(out, LineText(Head(lines), obj)))

(***************************************************************************)
(* Summary files the benchmark process can leave in the results directory. *)
(***************************************************************************)
\* the documented results of the Llama notebook
DocSummary ==
  [ json |-> TRUE,
    obj  |-> ( "mean_input_tokens" :> Num(550, 0)
            @@ "mean_output_tokens" :> Num(150, 0)
            @@ "results_ttft_s_mean" :> Num(550533, 5)
            @@ "results_mean_output_throughput_token_per_s" :> Num(1328, 1)
            @@ "results_inter_token_latency_s_mean" :> Num(2346, 5) ) ]

\* a summary with every key either reader uses, at the precision of a float
FullSummary ==
  [ json |-> TRUE,
    obj  |-> ( "mean_input_tokens" :> Num(550, 0)
            @@ "mean_output_tokens" :> Num(150, 0)
            @@ "results_number_input_tokens_mean" :> Num(5625, 1)
            @@ "results_number_output_tokens_mean" :> Num(676, 0)
            @@ "results_ttft_s_mean" :> Num(2435471, 6)
            @@ "results_mean_output_throughput_token_per_s" :> Num(288004, 3)
            @@ "results_inter_token_latency_s_mean" :> Num(10674, 6)
            @@ "results_num_completed_requests_per_min" :> Num(25538, 3) ) ]

Without(f, k) == [ json |-> f.json, obj |-> [ x \in (DOMAIN f.obj) \ {k} |-> f.obj[x] ] ]
WithNull(f, k) == [ json |-> f.json, obj |-> [ x \in DOMAIN f.obj |-> IF x = k THEN JNull ELSE f.obj[x] ] ]

\* a file that is not JSON (cut short, empty)
NotJson == [ json |-> FALSE, obj |-> [ x \in {} |-> JNull ] ]

SummaryContents ==
  { DocSummary, FullSummary,
    Without(FullSummary, "results_ttft_s_mean"),
    WithNull(FullSummary, "results_inter_token_latency_s_mean"),
    WithNull(FullSummary, "mean_input_tokens"),
    NotJson }

\* a file of the results directory: llmperf names its files after the model
FileName(model, kind) == [model |-> model, kind |-> kind]
NoFile == FileName(0, "none")
\* a summary left by an earlier session, for an endpoint that is gone
StaleFile == FileName(-1, "summary")
EmptyDir == [ f \in {} |-> NotJson ]

\* the pattern *summary.json
Matches(f) == f.kind = "summary"

\* glob.glob('results/*summary.json'): the matching names, in no fixed order
Glob(dir) == { f \in DOMAIN dir : Matches(f) }

(***************************************************************************)
(* The inference request.  messages and parameters as the cells define     *)
(* them; the body is the dict literal handed to llm.predict, which sends   *)
(* it as JSON.  A str is escaped piece by piece, so that writing a body    *)
(* and reading it back is a computation.                                   *)
(***************************************************************************)
\* how many messages a conversation given to the codec on its own holds
MaxMessages == 2

Message(role, content) == [role |-> Str(<<role>>), content |-> Str(content)]

\* messages = [...] of both notebooks
Messages ==
  << Message("system", <<"You are a helpful assistant.">>),
     Message("user", <<"What is deep learning?">>) >>

PyNum(m, e) == [type |-> "num", val |-> <<m, e>>]
PyTrue == [type |-> "bool", val |-> <<"True">>]
PyList(items) == [type |-> "list", val |-> items]

\* parameters = {...} of each notebook
LlamaParameters ==
     "model" :> Str(<<"meta-llama/Meta-Llama-3-70B-Instruct">>)
  @@ "top_p" :> PyNum(6, 1)
  @@ "temperature" :> PyNum(9, 1)
  @@ "max_tokens" :> PyNum(50, 0)
  @@ "stop" :> PyList(<< Str(<<"<|eot_id|>">>) >>)

MixtralParameters ==
     "model" :> Str(<<"aws-neuron/mixtral-instruct-seqlen-4096-bs-4-optimum-0-0-23">>)
  @@ "top_p" :> PyNum(6, 1)
  @@ "temperature" :> PyNum(9, 1)
  @@ "max_tokens" :> PyNum(512, 0)

\* variant: only the last message is put into the body
RequestBodyLastOnly(n, msgs) ==
  LET kept == IF msgs = <<>> THEN <<>> ELSE << msgs[Len(msgs)] >>
  IN  IF n = "llama"
      THEN ("steam" :> PyTrue) @@ LlamaParameters @@ ("messages" :> PyList(kept))
      ELSE MixtralParameters @@ ("messages" :> PyList(kept))

\* variant: the streaming flag spelled as the serving container reads it
RequestBodyStream(n, msgs) ==
  IF n = "llama"
  THEN ("stream" :> PyTrue) @@ LlamaParameters @@ ("messages" :> PyList(msgs))
  ELSE MixtralParameters @@ ("messages" :> PyList(msgs))

\* {"messages": messages, **parameters, "steam": True} and
\* {"messages": messages, **parameters}: a later key replaces an earlier one
RequestBody(n, msgs) ==
  IF n = "llama"
  THEN ("steam" :> PyTrue) @@ LlamaParameters @@ ("messages" :> PyList(msgs))
  ELSE MixtralParameters @@ ("messages" :> PyList(msgs))

\* the characters of a JSON string for one piece of a str
EscapePiece(p) ==
  IF p = "\"" THEN << "\\", "\"" >>
  ELSE IF p = "\\" THEN << "\\", "\\" >>
  ELSE << p >>

RECURSIVE EscapeAll(_)
EscapeAll(s) == IF s = <<>> THEN <<>> ELSE EscapePiece(Head(s)) \o EscapeAll(Tail(s))

\* json.dumps of a str
JsonString(v) == [type |-> "json_str", val |-> << "\"" >> \o EscapeAll(v.val) \o << "\"" >>]

RECURSIVE UnescapeAll(_)
UnescapeAll(w) ==
  IF w = <<>> THEN <<>>
  ELSE IF Head(w) = "\\" /\ Len(w) >= 2
       THEN << w[2] >> \o UnescapeAll(SubSeq(w, 3, Len(w)))
       ELSE << Head(w) >> \o UnescapeAll(Tail(w))

\* json.loads of a JSON string
ParseJsonString(j) == Str(UnescapeAll(SubSeq(j.val, 2, Len(j.val) - 1)))

EncodeMessage(m) == [role |-> JsonString(m.role), content |-> JsonString(m.content)]
DecodeMessage(w) == [role |-> ParseJsonString(w.role), content |-> ParseJsonString(w.content)]

\* one value of the body as JSON
EncodeValue(k, v) ==
  CASE k = "messages" -> [type |-> "json_list",
                          val |-> [i \in 1..Len(v.val) |-> EncodeMessage(v.val[i])]]
    [] v.type = "list" -> [type |-> "json_list",
                           val |-> [i \in 1..Len(v.val) |-> JsonString(v.val[i])]]
    [] v.type = "str"  -> JsonString(v)
    [] OTHER           -> v

\* the body as sent: every key of the dict with its value as JSON
EncodeBody(body) == [k \in DOMAIN body |-> EncodeValue(k, body[k])]

\* the messages the serving container reads from a body
DecodeMessages(wire) ==
  [i \in 1..Len(wire["messages"].val) |-> DecodeMessage(wire["messages"].val[i])]

NoRequest == [k \in {} |-> PyTrue]
NoText == [type |-> "none", val |-> <<>>]
NoMessages == <<>>

\* conversations given to the codec on its own
Roles == {"system", "user", "assistant"}
Contents == { <<>>, <<"a">>, <<"\"", "a", "\"">>, <<"a", "\\", "n">> }
CodecMessages == { Message(r, c) : r \in Roles, c \in Contents }

RECURSIVE SeqsUpTo(_, _)
SeqsUpTo(S, n) ==
  IF n = 0 THEN { <<>> }
  ELSE LET shorter == SeqsUpTo(S, n - 1)
       IN  shorter \cup { Append(q, x) : q \in { t \in shorter : Len(t) = n - 1 }, x \in S }

(***************************************************************************)
(* Initial state: a fresh kernel; the machine may or may not hold a token, *)
(* and the directory "results" may hold the summary of an earlier session. *)
(***************************************************************************)
KernelInit ==
  /\ nb \in Notebooks
  /\ token \in Tokens
  /\ pc = Cells[1]
  /\ reruns = 0
  /\ err = "none"
  /\ config = Unbound
  /\ llm_model = Unbound
  /\ llm = 0
  /\ chat = Unbound
  /\ data = Unbound
  /\ printed = <<>>
  /\ opened = NoFile
  /\ deploying = 0
  /\ elapsed = 0
  /\ submitted = {}
  /\ nextName = 1
  /\ platModels = {}
  /\ platConfigs = {}
  /\ platEndpoints = {}
  /\ inService = {}
  /\ resultsDir \in { EmptyDir, StaleFile :> DocSummary }
  /\ last = NoCall
  /\ outcomes = <<>>
  /\ predictOn = {}
  /\ deleted = {}
  /\ appLaunched = FALSE
  /\ issued = <<>>
  /\ request = NoRequest
  /\ shown = NoText

Init ==
  /\ KernelInit
  /\ codecIn = NoMessages
  /\ codecOut = NoMessages
  /\ codecStage = "idle"

(***************************************************************************)
(* Execution of cells.  The run executes the cell pc points at; after the  *)
(* run has ended any cell can be executed again by hand.  A cell that      *)
(* raises stops the run.                                                   *)
(***************************************************************************)
\* variant: a cell is started while the deploy call has not returned
CanRunWhileDeploying(c) ==
  \/ pc = c
  \/ pc \in Ended /\ reruns < MaxReruns

CanRun(c) ==
  /\ deploying = 0
  /\ \/ pc = c
     \/ pc \in Ended /\ reruns < MaxReruns

\* variant: the cell catches what its calls raise and goes on
FinishSwallowing(c, e) ==
  /\ err' = "none"
  /\ pc' = IF pc = c THEN Succ(c) ELSE pc
  /\ reruns' = IF pc = c THEN reruns ELSE reruns + 1

Finish(c, e) ==
  /\ err' = e
  /\ pc' = IF pc = c THEN (IF e = "none" THEN Succ(c) ELSE "aborted") ELSE pc
  /\ reruns' = IF pc = c THEN reruns ELSE reruns + 1

\* HuggingFaceModel(role=role, image_uri=llm_image, env=config): keeps env as given
HuggingFaceModel(env) == env

(***************************************************************************)
(* Cell: config = {...}; llm_model = HuggingFaceModel(...)                 *)
(***************************************************************************)
ConfigCell ==
  /\ CanRun("config")
  /\ config' = ConfigOf(nb, token)
  /\ llm_model' = HuggingFaceModel(config')
  /\ Finish("config", "none")
  /\ issued' = <<>>
  /\ UNCHANGED << nb, token, llm, chat, data, printed, opened, deploying,
                  elapsed, submitted, nextName, platformVars, resultsDir,
                  last, outcomes, predictOn, deleted, appLaunched, request,
                  shown, codecVars >>

(***************************************************************************)
(* Cell: llm = llm_model.deploy(initial_instance_count=1, instance_type,   *)
(*         container_startup_health_check_timeout, volume_size)            *)
(* The call creates the model, the endpoint configuration and the          *)
(* endpoint, then waits until the endpoint has left the state Creating.    *)
(***************************************************************************)
\* variant: the request is built without looking at the values
EnvIsStringsLax(env) == TRUE

\* the request is built from env: every value must be a str
EnvIsStrings(env) == \A k \in DOMAIN env : env[k].type = "str"

\* variant: deploy(..., wait=False) returns the predictor without waiting
DeployCellNoWait ==
  /\ CanRun("deploy")
  /\ nextName <= MaxDeploys
  /\ \/ /\ llm_model = Unbound
        /\ Finish("deploy", "NameError")
        /\ issued' = <<>>
        /\ UNCHANGED << llm, submitted, nextName, platformVars, last, outcomes >>
     \/ /\ llm_model # Unbound
        /\ ~EnvIsStrings(llm_model)
        /\ outcomes' = Append(outcomes, "ParamValidationError")
        /\ Finish("deploy", "ParamValidationError")
        /\ issued' = << Call("deploy", "unsent") >>
        /\ UNCHANGED << llm, submitted, nextName, platformVars, last >>
     \/ /\ llm_model # Unbound
        /\ EnvIsStrings(llm_model)
        /\ submitted' = submitted \cup {llm_model}
        /\ platModels' = platModels \cup {nextName}
        /\ platConfigs' = platConfigs \cup {nextName}
        /\ nextName' = nextName + 1
        /\ last' = [op |-> "deploy", name |-> nextName, result |-> "error"]
        /\ outcomes' = Append(outcomes, "DeploymentRejected")
        /\ Finish("deploy", "DeploymentRejected")
        /\ issued' = << Call("deploy", "error") >>
        /\ UNCHANGED << llm, platEndpoints, inService >>
     \/ /\ llm_model # Unbound
        /\ EnvIsStrings(llm_model)
        /\ submitted' = submitted \cup {llm_model}
        /\ platModels' = platModels \cup {nextName}
        /\ platConfigs' = platConfigs \cup {nextName}
        /\ platEndpoints' = platEndpoints \cup {nextName}
        /\ nextName' = nextName + 1
        /\ llm' = nextName
        /\ last' = [op |-> "deploy", name |-> nextName, result |-> "waiting"]
        /\ Finish("deploy", "none")
        /\ issued' = << Call("deploy", "waiting") >>
        /\ UNCHANGED << inService, outcomes >>
  /\ UNCHANGED << nb, token, config, llm_model, chat, data, printed, opened,
                  deploying, elapsed, resultsDir, predictOn, deleted, appLaunched,
                  request, shown, codecVars >>

DeployCell ==
  /\ CanRun("deploy")
  /\ nextName <= MaxDeploys
  /\ \/ \* llm_model is not defined
        /\ llm_model = Unbound
        /\ Finish("deploy", "NameError")
        /\ issued' = <<>>
        /\ UNCHANGED << deploying, elapsed, submitted, nextName, platformVars,
                        last, outcomes >>
     \/ \* the request cannot be built: nothing is sent
        /\ llm_model # Unbound
        /\ ~EnvIsStrings(llm_model)
        /\ outcomes' = Append(outcomes, "ParamValidationError")
        /\ Finish("deploy", "ParamValidationError")
        /\ issued' = << Call("deploy", "unsent") >>
        /\ UNCHANGED << deploying, elapsed, submitted, nextName, platformVars, last >>
     \/ \* the platform refuses the endpoint (resource limit, quota)
        /\ llm_model # Unbound
        /\ EnvIsStrings(llm_model)
        /\ submitted' = submitted \cup {llm_model}
        /\ platModels' = platModels \cup {nextName}
        /\ platConfigs' = platConfigs \cup {nextName}
        /\ nextName' = nextName + 1
        /\ last' = [op |-> "deploy", name |-> nextName, result |-> "error"]
        /\ outcomes' = Append(outcomes, "DeploymentRejected")
        /\ Finish("deploy", "DeploymentRejected")
        /\ issued' = << Call("deploy", "error") >>
        /\ UNCHANGED << deploying, elapsed, platEndpoints, inService >>
     \/ \* the endpoint is created and deploy starts to wait
        /\ llm_model # Unbound
        /\ EnvIsStrings(llm_model)
        /\ submitted' = submitted \cup {llm_model}
        /\ platModels' = platModels \cup {nextName}
        /\ platConfigs' = platConfigs \cup {nextName}
        /\ platEndpoints' = platEndpoints \cup {nextName}
        /\ nextName' = nextName + 1
        /\ deploying' = nextName
        /\ elapsed' = 0
        /\ last' = [op |-> "deploy", name |-> nextName, result |-> "waiting"]
        /\ issued' = << Call("deploy", "waiting") >>
        /\ UNCHANGED << pc, reruns, err, inService, outcomes >>
  /\ UNCHANGED << nb, token, kernelVars, resultsDir, predictOn, deleted, appLaunched,
                  request, shown, codecVars >>

\* deploy waits: the container passes its health check, or the startup
\* time allowed by container_startup_health_check_timeout runs out
DeployPoll ==
  /\ deploying # 0
  /\ \/ /\ inService' = inService \cup {deploying}
        /\ llm' = deploying
        /\ deploying' = 0
        /\ last' = [op |-> "deploy", name |-> deploying, result |-> "ok"]
        /\ outcomes' = Append(outcomes, "EndpointHandle")
        /\ Finish("deploy", "none")
        /\ issued' = << Call("deploy", "ok") >>
        /\ UNCHANGED elapsed
     \/ /\ elapsed + PollInterval < health_check_timeout
        /\ elapsed' = elapsed + PollInterval
        /\ UNCHANGED << pc, reruns, err, llm, deploying, inService, last, outcomes,
                        issued >>
     \/ /\ elapsed + PollInterval >= health_check_timeout
        /\ deploying' = 0
        /\ last' = [op |-> "deploy", name |-> deploying, result |-> "error"]
        /\ outcomes' = Append(outcomes, "DeploymentTimeout")
        /\ Finish("deploy", "DeploymentTimeout")
        /\ issued' = << Call("deploy", "error") >>
        /\ UNCHANGED << llm, elapsed, inService >>
  /\ UNCHANGED << nb, token, config, llm_model, chat, data, printed, opened,
                  submitted, nextName, platModels, platConfigs, platEndpoints,
                  resultsDir, predictOn, deleted, appLaunched, request, shown,
                  codecVars >>

(***************************************************************************)
(* Cell: chat = llm.predict({...}); print(chat["choices"][0]["message"]    *)
(*                                            ["content"].strip())         *)
(***************************************************************************)
Response(kind) == [type |-> "response", val |-> <<kind>>]

\* status codes of a refused or failed invocation: throttled, failed in the
\* container, timed out
ErrorStatuses == {429, 500, 504}

Answer(kind, status) == [kind |-> kind, status |-> status]

\* what the endpoint can answer to an invocation: a completion, a completion
\* without finish_reason, a body that is not JSON, a JSON body without
\* choices, or an error status; an endpoint that does not exist or is not in
\* service answers with an error only
InvokeResults(name) ==
  IF name \in inService
  THEN { Answer("ok", 200), Answer("no_finish_reason", 200),
         Answer("not_json", 200), Answer("no_choices", 200) }
       \cup { Answer("http_error", st) : st \in ErrorStatuses }
  ELSE { Answer("http_error", 400) }

ResultOf(a) ==
  CASE a.kind \in {"ok", "no_finish_reason"} -> "ok"
    [] a.kind = "http_error" -> "error"
    [] OTHER -> "malformed"

\* variant: a body without choices is printed as an empty text
PredictCellDefaulting ==
  /\ CanRun("predict")
  /\ \/ /\ llm = 0
        /\ Finish("predict", "NameError")
        /\ issued' = <<>>
        /\ UNCHANGED << chat, last, predictOn, request, shown >>
     \/ /\ llm # 0
        /\ predictOn' = predictOn \cup {llm}
        /\ request' = EncodeBody(RequestBody(nb, Messages))
        /\ \E a \in InvokeResults(llm) :
             /\ last' = [op |-> "predict", name |-> llm, result |-> ResultOf(a),
                         kind |-> a.kind, status |-> a.status]
             /\ issued' = << Call("predict", ResultOf(a)) >>
             /\ \/ /\ a.kind \in {"ok", "no_finish_reason"}
                   /\ chat' = Response(a.kind)
                   /\ shown' = Str(<<"content">>)
                   /\ Finish("predict", "none")
                \/ /\ a.kind = "no_choices"
                   /\ chat' = Response("no_choices")
                   /\ shown' = Str(<<>>)
                   /\ Finish("predict", "none")
                \/ /\ a.kind = "not_json"
                   /\ chat' = chat
                   /\ shown' = NoText
                   /\ Finish("predict", "JSONDecodeError")
                \/ /\ a.kind = "http_error"
                   /\ chat' = chat
                   /\ shown' = NoText
                   /\ Finish("predict", "ModelError")
  /\ UNCHANGED << nb, token, config, llm_model, llm, data, printed, opened,
                  deploying, elapsed, submitted, nextName, platformVars,
                  resultsDir, outcomes, deleted, appLaunched, codecVars >>

PredictCell ==
  /\ CanRun("predict")
  /\ \/ /\ llm = 0
        /\ Finish("predict", "NameError")
        /\ issued' = <<>>
        /\ UNCHANGED << chat, last, predictOn, request, shown >>
     \/ /\ llm # 0
        /\ predictOn' = predictOn \cup {llm}
        /\ request' = EncodeBody(RequestBody(nb, Messages))
        /\ \E a \in InvokeResults(llm) :
             /\ last' = [op |-> "predict", name |-> llm, result |-> ResultOf(a),
                         kind |-> a.kind, status |-> a.status]
             /\ issued' = << Call("predict", ResultOf(a)) >>
             /\ \/ \* the completion is assigned and its text printed;
                   \* finish_reason is never read
                   /\ a.kind \in {"ok", "no_finish_reason"}
                   /\ chat' = Response(a.kind)
                   /\ shown' = Str(<<"content">>)
                   /\ Finish("predict", "none")
                \/ \* chat is assigned, chat["choices"] raises
                   /\ a.kind = "no_choices"
                   /\ chat' = Response("no_choices")
                   /\ shown' = NoText
                   /\ Finish("predict", "KeyError")
                \/ \* predict raises while reading the body
                   /\ a.kind = "not_json"
                   /\ chat' = chat
                   /\ shown' = NoText
                   /\ Finish("predict", "JSONDecodeError")
                \/ \* predict raises with the status of the response
                   /\ a.kind = "http_error"
                   /\ chat' = chat
                   /\ shown' = NoText
                   /\ Finish("predict", "ModelError")
  /\ UNCHANGED << nb, token, config, llm_model, llm, data, printed, opened,
                  deploying, elapsed, submitted, nextName, platformVars,
                  resultsDir, outcomes, deleted, appLaunched, codecVars >>

(***************************************************************************)
(* Cell: from llama3_chat import create_gradio_app; create_gradio_app(     *)
(*         llm.endpoint_name, ...)                                         *)
(***************************************************************************)
DemoCell ==
  /\ CanRun("demo")
  /\ \/ /\ Finish("demo", "ImportError")
        /\ UNCHANGED appLaunched
     \/ /\ llm = 0
        /\ Finish("demo", "NameError")
        /\ UNCHANGED appLaunched
     \/ /\ llm # 0
        /\ appLaunched' = TRUE
        /\ Finish("demo", "none")
  /\ issued' = <<>>
  /\ UNCHANGED << nb, token, kernelVars, deploying, elapsed, submitted,
                  nextName, platformVars, resultsDir, last, outcomes,
                  predictOn, deleted, request, shown, codecVars >>

(***************************************************************************)
(* Cell: !MESSAGES_API=true python llmperf/token_benchmark_ray.py          *)
(*         --model {llm.endpoint_name} ... --results-dir "results"         *)
(* A shell line never raises in the kernel.  The process writes its two    *)
(* files named after the model, or ends without writing.                   *)
(***************************************************************************)
IndividualResponses == [ json |-> TRUE, obj |-> [ x \in {} |-> JNull ] ]

BenchmarkCell ==
  /\ CanRun("benchmark")
  /\ \/ /\ \E c \in SummaryContents :
             resultsDir' = (FileName(llm, "summary") :> c)
                           @@ (FileName(llm, "individual_responses") :> IndividualResponses)
                           @@ resultsDir
        /\ last' = [op |-> "benchmark", name |-> llm, result |-> "ok"]
     \/ /\ resultsDir' = resultsDir
        /\ last' = [op |-> "benchmark", name |-> llm, result |-> "error"]
  /\ Finish("benchmark", "none")
  /\ issued' = <<>>
  /\ UNCHANGED << nb, token, kernelVars, deploying, elapsed, submitted,
                  nextName, platformVars, outcomes, predictOn, deleted,
                  appLaunched, request, shown, codecVars >>

(***************************************************************************)
(* Cell: with open(glob.glob(f'results/*summary.json')[0], 'r') as file:   *)
(*           data = json.load(file)                                        *)
(*       print(...) ...                                                    *)
(***************************************************************************)
ReaderCell ==
  /\ CanRun("reader")
  /\ \/ \* [0] of an empty list
        /\ Glob(resultsDir) = {}
        /\ Finish("reader", "IndexError")
        /\ printed' = <<>>
        /\ UNCHANGED << data, opened >>
     \/ \E f \in Glob(resultsDir) :
          /\ opened' = f
          /\ IF ~resultsDir[f].json
             THEN /\ Finish("reader", "JSONDecodeError")
                  /\ printed' = <<>>
                  /\ UNCHANGED data
             ELSE LET r == RunPrints(LinesOf(nb), resultsDir[f].obj, <<>>)
                  IN  /\ data' = resultsDir[f].obj
                      /\ printed' = r.out
                      /\ Finish("reader", r.err)
  /\ issued' = <<>>
  /\ UNCHANGED << nb, token, config, llm_model, llm, chat, deploying, elapsed,
                  submitted, nextName, platformVars, resultsDir, last,
                  outcomes, predictOn, deleted, appLaunched, request, shown,
                  codecVars >>

(***************************************************************************)
(* Cell: llm.delete_model(); llm.delete_endpoint()                         *)
(* Each call raises when what it deletes does not exist or when the        *)
(* platform fails the request; a statement that raises ends the cell.      *)
(***************************************************************************)
\* variant: only llm.delete_model() is called
CleanupCellModelOnly ==
  /\ CanRun("cleanup")
  /\ \/ /\ llm = 0
        /\ Finish("cleanup", "NameError")
        /\ issued' = <<>>
        /\ UNCHANGED << platformVars, last, deleted >>
     \/ /\ llm # 0
        /\ last' = [op |-> "delete_model", name |-> llm, result |-> "error"]
        /\ Finish("cleanup", "DeleteModelError")
        /\ issued' = << Call("delete_model", "error") >>
        /\ UNCHANGED << platformVars, deleted >>
     \/ /\ llm # 0
        /\ llm \in platModels
        /\ platModels' = platModels \ {llm}
        /\ deleted' = deleted \cup {llm}
        /\ last' = [op |-> "delete_model", name |-> llm, result |-> "ok"]
        /\ Finish("cleanup", "none")
        /\ issued' = << Call("delete_model", "ok") >>
        /\ UNCHANGED << platConfigs, platEndpoints, inService >>
  /\ UNCHANGED << nb, token, kernelVars, deploying, elapsed, submitted,
                  nextName, resultsDir, outcomes, predictOn, appLaunched,
                  request, shown, codecVars >>

\* variant: the two deletes are written in the other order
CleanupCellEndpointFirst ==
  /\ CanRun("cleanup")
  /\ \/ /\ llm = 0
        /\ Finish("cleanup", "NameError")
        /\ issued' = <<>>
        /\ UNCHANGED << platformVars, last, deleted >>
     \/ \* delete_endpoint raises
        /\ llm # 0
        /\ last' = [op |-> "delete_endpoint", name |-> llm, result |-> "error"]
        /\ Finish("cleanup", "DeleteEndpointError")
        /\ issued' = << Call("delete_endpoint", "error") >>
        /\ UNCHANGED << platformVars, deleted >>
     \/ \* delete_endpoint returns, delete_model raises
        /\ llm # 0
        /\ llm \in platConfigs /\ llm \in platEndpoints
        /\ platConfigs' = platConfigs \ {llm}
        /\ platEndpoints' = platEndpoints \ {llm}
        /\ inService' = inService \ {llm}
        /\ deleted' = deleted \cup {llm}
        /\ last' = [op |-> "delete_model", name |-> llm, result |-> "error"]
        /\ Finish("cleanup", "DeleteModelError")
        /\ issued' = << Call("delete_endpoint", "ok"), Call("delete_model", "error") >>
        /\ UNCHANGED platModels
     \/ \* both return
        /\ llm # 0
        /\ llm \in platModels
        /\ llm \in platConfigs /\ llm \in platEndpoints
        /\ platModels' = platModels \ {llm}
        /\ platConfigs' = platConfigs \ {llm}
        /\ platEndpoints' = platEndpoints \ {llm}
        /\ inService' = inService \ {llm}
        /\ deleted' = deleted \cup {llm}
        /\ last' = [op |-> "delete_model", name |-> llm, result |-> "ok"]
        /\ Finish("cleanup", "none")
        /\ issued' = << Call("delete_endpoint", "ok"), Call("delete_model", "ok") >>
  /\ UNCHANGED << nb, token, kernelVars, deploying, elapsed, submitted,
                  nextName, resultsDir, outcomes, predictOn, appLaunched,
                  request, shown, codecVars >>

CleanupCell ==
  /\ CanRun("cleanup")
  /\ \/ /\ llm = 0
        /\ Finish("cleanup", "NameError")
        /\ issued' = <<>>
        /\ UNCHANGED << platformVars, last, deleted >>
     \/ \* delete_model raises
        /\ llm # 0
        /\ last' = [op |-> "delete_model", name |-> llm, result |-> "error"]
        /\ Finish("cleanup", "DeleteModelError")
        /\ issued' = << Call("delete_model", "error") >>
        /\ UNCHANGED << platformVars, deleted >>
     \/ \* delete_model returns, delete_endpoint raises
        /\ llm # 0
        /\ llm \in platModels
        /\ platModels' = platModels \ {llm}
        /\ last' = [op |-> "delete_endpoint", name |-> llm, result |-> "error"]
        /\ Finish("cleanup", "DeleteEndpointError")
        /\ issued' = << Call("delete_model", "ok"), Call("delete_endpoint", "error") >>
        /\ UNCHANGED << platConfigs, platEndpoints, inService, deleted >>
     \/ \* both return
        /\ llm # 0
        /\ llm \in platModels
        /\ llm \in platConfigs /\ llm \in platEndpoints
        /\ platModels' = platModels \ {llm}
        /\ platConfigs' = platConfigs \ {llm}
        /\ platEndpoints' = platEndpoints \ {llm}
        /\ inService' = inService \ {llm}
        /\ deleted' = deleted \cup {llm}
        /\ last' = [op |-> "delete_endpoint", name |-> llm, result |-> "ok"]
        /\ Finish("cleanup", "none")
        /\ issued' = << Call("delete_model", "ok"), Call("delete_endpoint", "ok") >>
  /\ UNCHANGED << nb, token, kernelVars, deploying, elapsed, submitted,
                  nextName, resultsDir, outcomes, predictOn, appLaunched,
                  request, shown, codecVars >>

Next ==
  \/ ConfigCell
  \/ DeployCell
  \/ DeployPoll
  \/ PredictCell
  \/ DemoCell
  \/ BenchmarkCell
  \/ ReaderCell
  \/ CleanupCell

Spec == Init /\ [][Next]_vars

(***************************************************************************)
(* The inference codec on its own: a conversation is written into the body *)
(* of a request as llm.predict writes it, and read back from the body as   *)
(* the serving container reads it.                                         *)
(***************************************************************************)
CodecInit ==
  /\ KernelInit
  /\ token = NoneValue
  /\ resultsDir = EmptyDir
  /\ codecIn \in SeqsUpTo(CodecMessages, MaxMessages)
  /\ codecOut = NoMessages
  /\ codecStage = "idle"

CodecEncode ==
  /\ codecStage = "idle"
  /\ request' = EncodeBody(RequestBody(nb, codecIn))
  /\ codecStage' = "encoded"
  /\ UNCHANGED << nb, token, pc, reruns, err, kernelVars, deploying, elapsed,
                  submitted, nextName, platformVars, resultsDir, last, outcomes,
                  predictOn, deleted, appLaunched, issued, shown, codecIn,
                  codecOut >>

CodecDecode ==
  /\ codecStage = "encoded"
  /\ codecOut' = DecodeMessages(request)
  /\ codecStage' = "decoded"
  /\ UNCHANGED << nb, token, pc, reruns, err, kernelVars, deploying, elapsed,
                  submitted, nextName, platformVars, resultsDir, last, outcomes,
                  predictOn, deleted, appLaunched, issued, request, shown,
                  codecIn >>

CodecNext ==
  \/ CodecEncode
  \/ CodecDecode

CodecSpec == CodecInit /\ [][CodecNext]_vars

TypeOK ==
  /\ pc \in CellSet \cup Ended
  /\ reruns \in 0..MaxReruns
  /\ llm \in 0..MaxDeploys

(***************************************************************************)
(* Properties.                                                             *)
(***************************************************************************)
\* the two relations of a deployment configuration
ConfigConsistent(n, env) ==
  /\ ParseInt(env["MAX_TOTAL_TOKENS"]) = CompiledSequenceLength(n, env)
  /\ ParseInt(env["MAX_INPUT_LENGTH"]) < ParseInt(env["MAX_TOTAL_TOKENS"])

\* endpoint names returned by a successful deploy call
Handles == inService \cup deleted

C2_NoEndpointLeftAtEnd == (pc \in Ended /\ deploying = 0) => inService = {}

\* C3: an inference call issued on a handle after the clean-up cell has
\* deleted it fails and assigns no response.
C3_NoInferenceAfterDelete ==
  [][ (PredictCell /\ llm \in deleted)
        => (last'.op = "predict" /\ last'.result = "error" /\ err' # "none"
            /\ chat' = chat) ]_vars

C3_Witness == last.op = "predict" /\ last.name \in deleted /\ last.result = "error"

\* C4: executing the clean-up cell on a handle it has already deleted raises
\* no error and changes nothing on the platform.
C4_SecondDeleteIsNoOp ==
  [][ (CleanupCell /\ llm \in deleted) => (err' = "none" /\ UNCHANGED platformVars) ]_vars

\* C5: every deploy call ends by returning an endpoint handle, with
\* DeploymentTimeout or with DeploymentRejected.
C5_ThreeOutcomes ==
  \A i \in 1..Len(outcomes) :
    outcomes[i] \in {"EndpointHandle", "DeploymentTimeout", "DeploymentRejected"}

FieldOf(label) ==
  CASE label = "Avg. Input token length" -> "input_tokens"
    [] label = "Avg. Output token length" -> "output_tokens"
    [] label \in {"Avg. First-Time-To-Token", "Avg. Time-to-first-Token"} -> "ttft"
    [] label \in {"Avg. Latency", "Avg. Inter-Token-Latency"} -> "itl"
    [] label = "Avg. Thorughput" -> "throughput"
    [] label = "Request per minute (RPM)" -> "rpm"
    [] OTHER -> "none"

SixFields == {"input_tokens", "output_tokens", "ttft", "itl", "throughput", "rpm"}

\* the summary fields reported by a sequence of printed lines
ReportedFields(out) == { FieldOf(out[i].label) : i \in 1..Len(out) } \ {"none"}

\* the value printed for a summary field
Reported(out, field) ==
  LET i == CHOOSE j \in 1..Len(out) : FieldOf(out[j].label) = field
  IN  out[i].value

ReaderErrors == {"IndexError", "JSONDecodeError", "KeyError", "TypeError"}

\* C7: the reader cell opens and parses a file only when exactly one file of
\* the results directory matches *summary.json; with no match and with two or
\* more matches it raises and opens nothing.
C7_ExactlyOneMatch ==
  [][ (ReaderCell /\ pc = "reader" /\ Cardinality(Glob(resultsDir)) # 1)
        => (err' \in ReaderErrors /\ opened' = opened /\ printed' = <<>>) ]_vars

\* C8: when the file lacks a field the reader prints, or is not JSON, or holds
\* a null where a number is expected, the reader cell raises and has reported
\* no field of the summary.
C8_ErrorAndNothingPrinted ==
  [][ ( /\ ReaderCell
        /\ pc = "reader"
        /\ opened' # NoFile
        /\ Glob(resultsDir) # {}
        /\ \/ ~resultsDir[opened'].json
           \/ \E i \in 1..Len(LinesOf(nb)) :
                /\ LinesOf(nb)[i].op # "const"
                /\ \/ LinesOf(nb)[i].key \notin DOMAIN resultsDir[opened'].obj
                   \/ resultsDir[opened'].obj[LinesOf(nb)[i].key].type # "num" )
        => (err' \in ReaderErrors /\ ReportedFields(printed') = {}) ]_vars

\* C8 as amended: a file that is not JSON makes the reader raise before any
\* line is printed.  Otherwise the print statements run in order up to the
\* first one that reads a missing field (KeyError) or formats a null as a
\* number (TypeError): exactly the lines before that statement have been
\* printed, each with the label and a field of the file, none for a missing
\* field and none with a substituted value; with no such statement the cell
\* prints every line and raises nothing.
C8_RaisesAtFirstMissingField ==
  [][ (ReaderCell /\ opened' # NoFile /\ Glob(resultsDir) # {})
        => LET f == resultsDir[opened']
               lines == LinesOf(nb)
               missing == { i \in 1..Len(lines) :
                              lines[i].op # "const" /\ lines[i].key \notin DOMAIN f.obj }
               nulls == { i \in (1..Len(lines)) \ missing :
                            /\ lines[i].op \in {"int", "ms2f", "2f"}
                            /\ f.obj[lines[i].key].type = "null" }
               failing == missing \cup nulls
           IN  /\ ~f.json => (err' = "JSONDecodeError" /\ printed' = <<>>)
               /\ (f.json /\ failing = {}) =>
                    (err' = "none" /\ Len(printed') = Len(lines))
               /\ (f.json /\ failing # {}) =>
                    /\ (Len(printed') + 1) \in failing
                    /\ \A i \in failing : Len(printed') < i
                    /\ err' = IF (Len(printed') + 1) \in missing
                              THEN "KeyError" ELSE "TypeError"
               /\ f.json =>
                    \A j \in 1..Len(printed') :
                      /\ printed'[j].label = lines[j].label
                      /\ lines[j].op # "const" => lines[j].key \in DOMAIN f.obj
                      /\ lines[j].op = "raw" => printed'[j].value = f.obj[lines[j].key] ]_vars

C8_Witness ==
  /\ err = "KeyError"
  /\ opened # NoFile
  /\ Len(printed) = 3
  /\ "results_ttft_s_mean" \notin DOMAIN resultsDir[opened].obj

\* the printed hundredths v are exactly 1000 times the seconds x
ExactMs(v, x) ==
  IF x.e <= 5 THEN v.m = x.m * Pow10(5 - x.e) ELSE v.m * Pow10(x.e - 5) = x.m

\* the printed hundredths v are within half a hundredth of 1000 times x
NearestMs(v, x) ==
  IF x.e <= 5 THEN v.m = x.m * Pow10(5 - x.e)
  ELSE LET d == v.m * Pow10(x.e - 5) - x.m
       IN  2 * d <= Pow10(x.e - 5) /\ 2 * (-d) <= Pow10(x.e - 5)

\* the printed hundredths v are within half a hundredth of x
Nearest2(v, x) ==
  IF x.e <= 2 THEN v.m = x.m * Pow10(2 - x.e)
  ELSE LET d == v.m * Pow10(x.e - 2) - x.m
       IN  2 * d <= Pow10(x.e - 2) /\ 2 * (-d) <= Pow10(x.e - 2)

DocFields ==
  { "mean_input_tokens", "mean_output_tokens", "results_ttft_s_mean",
    "results_mean_output_throughput_token_per_s",
    "results_inter_token_latency_s_mean" }

\* the reader cell has just run to its end on a file carrying the five fields
ReadDocFields ==
  /\ ReaderCell
  /\ err' = "none"
  /\ DocFields \subseteq DOMAIN data'

\* C9: on a file carrying the five fields the reader reports time-to-first-
\* token as exactly 1000 times results_ttft_s_mean, inter-token latency as
\* exactly 1000 times results_inter_token_latency_s_mean, and the token counts
\* and the throughput unchanged.
C9_ExactConversion ==
  [][ (ReadDocFields /\ pc = "reader") =>
        /\ ExactMs(Reported(printed', "ttft"), data'["results_ttft_s_mean"])
        /\ ExactMs(Reported(printed', "itl"), data'["results_inter_token_latency_s_mean"])
        /\ SameNumber(Reported(printed', "throughput"),
                      data'["results_mean_output_throughput_token_per_s"])
        /\ Reported(printed', "input_tokens") = data'["mean_input_tokens"]
        /\ Reported(printed', "output_tokens") = data'["mean_output_tokens"] ]_vars

\* C9 as amended: on a file carrying the five fields as numbers, either reader
\* reports time-to-first-token and inter-token latency as 1000 times the
\* value of the file rounded to two decimals, and the throughput rounded to
\* two decimals; the Llama reader reports the two token counts unchanged.
C9_RoundedConversion ==
  [][ ReadDocFields =>
        /\ Reported(printed', "ttft").e = 2
        /\ NearestMs(Reported(printed', "ttft"), data'["results_ttft_s_mean"])
        /\ Reported(printed', "itl").e = 2
        /\ NearestMs(Reported(printed', "itl"), data'["results_inter_token_latency_s_mean"])
        /\ Reported(printed', "throughput").e = 2
        /\ Nearest2(Reported(printed', "throughput"),
                    data'["results_mean_output_throughput_token_per_s"])
        /\ nb = "llama" =>
             /\ Reported(printed', "input_tokens") = data'["mean_input_tokens"]
             /\ Reported(printed', "output_tokens") = data'["mean_output_tokens"] ]_vars

\* the documented example: 5.50533 s is printed as 5505.33, 0.02346 s as 23.46
C9_Witness ==
  /\ nb = "llama"
  /\ err = "none"
  /\ pc = "cleanup"
  /\ data = DocSummary.obj
  /\ Len(printed) = 6
  /\ printed[4].value = Num(550533, 2)
  /\ printed[6].value = Num(2346, 2)

\* C10: whenever the reader cell runs to its end, what it reports carries all
\* six fields of the benchmark summary, in both notebooks.
C10_SixFields ==
  [][ (ReaderCell /\ pc = "reader" /\ err' = "none") => ReportedFields(printed') = SixFields ]_vars

\* C10 as amended: whenever the reader cell runs to its end, the Mixtral
\* reader has reported all six fields and the Llama reader the five fields
\* other than requests-per-minute.
C10_FieldsPerNotebook ==
  [][ (ReaderCell /\ err' = "none")
        => ReportedFields(printed') =
             IF nb = "mixtral" THEN SixFields ELSE SixFields \ {"rpm"} ]_vars

C10_Witness ==
  /\ nb = "llama"
  /\ err = "none"
  /\ pc = "cleanup"
  /\ opened # NoFile
  /\ ReportedFields(printed) = SixFields \ {"rpm"}

AsksToStream(body) ==
  \E k \in DOMAIN body \cap {"steam", "stream"} : body[k] = PyTrue

C14_NoRetryFailuresSurfaced ==
  /\ \A i, j \in 1..Len(issued) : issued[i].op = issued[j].op => i = j
  /\ \A i \in 1..Len(issued) :
       issued[i].result \in {"error", "unsent"}
         => (i = Len(issued) /\ err # "none")

C14_Witness ==
  /\ Len(issued) = 2
  /\ issued[1] = Call("delete_model", "ok")
  /\ issued[2] = Call("delete_endpoint", "error")
  /\ err # "none"

\* a deployment configuration that can be served: string values, the two
\* relations of C1, and neither batch size nor token budget above what the
\* model was compiled for
ValidDeployment(n, env) ==
  /\ \A k \in DOMAIN env : env[k].type = "str"
  /\ ConfigConsistent(n, env)
  /\ ParseInt(env["MAX_BATCH_SIZE"]) <= CompiledBatchSize(n, env)
  /\ ParseInt(env["MAX_TOTAL_TOKENS"]) <= CompiledSequenceLength(n, env)

C16_EnvMapIsStrings ==
  [][ (DeployCell /\ llm_model # Unbound)
        => \A k \in DOMAIN llm_model : llm_model[k].type = "str" ]_vars

\* C17: in every deployment configuration the serving-time MAX_BATCH_SIZE
\* equals the batch size the model was compiled with (HF_BATCH_SIZE in the
\* Llama notebook, BATCH_SIZE of the compile step in the Mixtral notebook).
C17_BatchSizeIsCompiled ==
  /\ config # Unbound
       => ParseInt(config["MAX_BATCH_SIZE"]) = CompiledBatchSize(nb, config)
  /\ llm_model # Unbound
       => ParseInt(llm_model["MAX_BATCH_SIZE"]) = CompiledBatchSize(nb, llm_model)
  /\ \A env \in submitted :
       ParseInt(env["MAX_BATCH_SIZE"]) = CompiledBatchSize(nb, env)

C17_Witness ==
  /\ nb = "llama"
  /\ config # Unbound
  /\ config \in submitted
  /\ inService # {}

C19_TeardownDeletesBoth ==
  [][ (CleanupCell /\ llm # 0 /\ err' = "none")
        => /\ llm \notin platModels'
           /\ llm \notin platEndpoints'
           /\ llm \notin platConfigs'
           /\ llm \notin inService'
           /\ issued' = << Call("delete_model", "ok"), Call("delete_endpoint", "ok") >>
    ]_vars

C19_Witness ==
  /\ last.op = "delete_endpoint"
  /\ last.result = "ok"
  /\ err = "none"
  /\ last.name \in deleted
  /\ last.name \notin platModels \cup platEndpoints

\* C20: the operations of the workflow are synchronous and run one after
\* another: while the deploy call has not returned nothing else of the
\* workflow happens, the cell after it starts only once the call has
\* returned its handle, and every other operation starts and completes in
\* one step of its cell.
C20_OneOperationAtATime ==
  [][ /\ deploying # 0
        => /\ UNCHANGED << config, llm_model, chat, data, printed, opened,
                           request, shown, predictOn, deleted, appLaunched,
                           submitted, resultsDir, nextName >>
           /\ last'.op = "deploy"
           /\ last'.name = deploying
           /\ deploying' \in {0, deploying}
      /\ (pc = "deploy" /\ pc' = "predict")
        => /\ deploying' = 0
           /\ llm' \in inService'
           /\ last' = [op |-> "deploy", name |-> llm', result |-> "ok"]
      /\ (pc \in CellSet \ {"deploy"} /\ pc' # pc)
        => (deploying = 0 /\ deploying' = 0) ]_vars

C20_Witness ==
  /\ pc = "benchmark"
  /\ reruns = 0
  /\ elapsed > 0
  /\ deploying = 0
  /\ last.op = "predict"

\* C21: an inference call that fails with a timeout is retryable and not
\* fatal to its caller: the predict cell of a run whose call timed out
\* issues the call again, and the run is not stopped by the failure, so that
\* benchmark and clean-up are still reached.
C21_TimeoutRetriedNotFatal ==
  [][ (PredictCell /\ pc = "predict" /\ llm # 0 /\ last'.status = 504)
        => /\ pc' # "aborted"
           /\ Len(issued') > 1 ]_vars

\* C22: in the clean-up cell delete_model is called strictly before
\* delete_endpoint, and delete_endpoint only if delete_model returned; when
\* delete_model raises, that execution of the cell deletes no endpoint.
C22_ModelBeforeEndpoint ==
  [][ (CleanupCell /\ llm # 0)
        => /\ Len(issued') \in {1, 2}
           /\ issued'[1].op = "delete_model"
           /\ Len(issued') = 2
                => /\ issued'[1].result = "ok"
                   /\ issued'[2].op = "delete_endpoint"
           /\ issued'[1].result = "error"
                => /\ Len(issued') = 1
                   /\ err' # "none"
                   /\ platEndpoints' = platEndpoints
                   /\ platConfigs' = platConfigs
                   /\ inService' = inService ]_vars

C22_Witness ==
  /\ issued = << Call("delete_model", "error") >>
  /\ last.op = "delete_model"
  /\ last.name \in inService
  /\ err = "DeleteModelError"

\* C23: the summary the reader cell parses is the one written by the
\* benchmark that immediately precedes it in the same run: when the reader
\* cell of a run opens a file, the benchmark cell before it has completed
\* and written a summary, and the file opened is that summary, never one
\* left in the results directory earlier.
C23_ReadsPrecedingBenchmark ==
  [][ (ReaderCell /\ pc = "reader" /\ Glob(resultsDir) # {})
        => /\ last.op = "benchmark"
           /\ last.result = "ok"
           /\ opened' = FileName(last.name, "summary")
           /\ opened' # StaleFile ]_vars

\* C24: the request body of the Llama notebook's inference call never has a
\* "stream" key: its keys are messages, model, top_p, temperature,
\* max_tokens, stop and the misspelled "steam"; and an answered call is
\* decoded as one complete completion, whose text is one str, not a
\* sequence of fragments.
C24_NoStreamKey ==
  [][ (PredictCell /\ nb = "llama" /\ llm # 0)
        => /\ "stream" \notin DOMAIN request'
           /\ DOMAIN request' = {"messages", "model", "top_p", "temperature",
                                 "max_tokens", "stop", "steam"}
           /\ request'["steam"] = PyTrue
           /\ Len(request'["messages"].val) = Len(Messages)
           /\ err' = "none"
                => /\ chat'.type = "response"
                   /\ shown'.type = "str" ]_vars

C24_Witness ==
  /\ nb = "llama"
  /\ "steam" \in DOMAIN request
  /\ last.op = "predict"
  /\ last.kind = "ok"
  /\ shown.type = "str"
  /\ err = "none"

====
